---------------------------- MODULE Spec2Model ----------------------------
(***************************************************************************)
(* make-migrations: the driver, the column extractor (getModelColumns),    *)
(* the diff engine (getRawMigrations) and the snapshot store (getMetaData, *)
(* meta.json).  src/index.js and src/unnamed/part_000 are two variants of  *)
(* the same program; their diff, extractor and snapshot code is the same   *)
(* statement for statement, and the line numbers quoted below are those of *)
(* src/unnamed/part_000.                                                   *)
(*                                                                         *)
(* A JavaScript object is modelled as the sequence of its entries          *)
(* [name, value] in insertion order (the order Object.entries yields).     *)
(* A column definition is a record whose fields are exactly the keys the   *)
(* object has, so a key that JSON drops is a field that is not there.      *)
(***************************************************************************)
EXTENDS Integers, Sequences, FiniteSets, TLC

(***************************************************************************)
(* Bounds of the model.                                                    *)
(***************************************************************************)
MaxCols == 2
MaxRuns == 2
MaxModels == 2

(***************************************************************************)
(* JavaScript objects as ordered entry lists.                              *)
(***************************************************************************)
EmptyObject == << >>

ObjKeys(o) == [i \in 1..Len(o) |-> o[i].name]

KeySet(o) == {o[i].name : i \in 1..Len(o)}

Has(o, n) == \E i \in 1..Len(o) : o[i].name = n

Get(o, n) == o[CHOOSE i \in 1..Len(o) : o[i].name = n].value

\* o[n] = v: an existing key keeps its place, a new key goes last.
Put(o, n, v) ==
  IF Has(o, n)
    THEN [i \in 1..Len(o) |-> IF o[i].name = n THEN [name |-> n, value |-> v] ELSE o[i]]
    ELSE Append(o, [name |-> n, value |-> v])

RECURSIVE Delete(_, _)
\* delete o[n]
Delete(o, n) ==
  IF o = << >> THEN << >>
  ELSE IF Head(o).name = n THEN Delete(Tail(o), n)
  ELSE << Head(o) >> \o Delete(Tail(o), n)

HasKey(r, k) == k \in DOMAIN r

WithoutKey(r, k) == [f \in (DOMAIN r) \ {k} |-> r[f]]

WithKey(r, k, v) == [f \in (DOMAIN r) \cup {k} |-> IF f = k THEN v ELSE r[f]]

(***************************************************************************)
(* deep-equal (non-strict): two objects are equal when they have the same  *)
(* keys and equal values; primitives are compared with ==.  The only       *)
(* values of mixed JavaScript type in a column definition are those of     *)
(* defaultValue, modelled as [t |-> typeof, v |-> value].                  *)
(***************************************************************************)
ToNumber(p) == IF p.t = "boolean" THEN (IF p.v THEN 1 ELSE 0) ELSE p.v

LooseEquals(p, q) ==
  IF p.t = q.t THEN p.v = q.v ELSE ToNumber(p) = ToNumber(q)

equalOptions(a, b) ==
  /\ DOMAIN a = DOMAIN b
  /\ \A k \in DOMAIN a :
       IF k = "defaultValue" THEN LooseEquals(a[k], b[k]) ELSE a[k] = b[k]

equal(a, b) ==
  /\ KeySet(a) = KeySet(b)
  /\ \A n \in KeySet(a) : equalOptions(Get(a, n), Get(b, n))

(***************************************************************************)
(* getModelColumns: the current columns of a model.                        *)
(***************************************************************************)
baseColumns ==
  << [name |-> "id",
      value |-> [type |-> "DataTypes.INTEGER", allowNull |-> FALSE,
                 autoIncrement |-> TRUE, primaryKey |-> TRUE]],
     [name |-> "createdAt", value |-> [type |-> "DataTypes.DATE", allowNull |-> FALSE]],
     [name |-> "updatedAt", value |-> [type |-> "DataTypes.DATE", allowNull |-> FALSE]],
     [name |-> "deletedAt", value |-> [type |-> "DataTypes.DATE"]] >>

\* The literal built for one attribute, after JSON.parse(JSON.stringify(..)):
\* a key whose value is undefined is dropped.
columnOfAttribute(a) ==
  LET keys == {"type"}
                \cup (IF HasKey(a, "allowNull") /\ a.allowNull = FALSE
                        THEN {"allowNull"} ELSE {})
                \cup ({"unique", "primaryKey", "prevColumnName", "defaultValue"}
                        \cap DOMAIN a)
  IN [k \in keys |->
        IF k = "type" THEN "DataTypes." \o a.type
        ELSE IF k = "allowNull" THEN FALSE
        ELSE a[k]]

\* modelColumnOptions.type.constructor.name throws a TypeError when the
\* attribute has no type.
attributeThrows(attributes) ==
  \E i \in 1..Len(attributes) :
    /\ ~Has(baseColumns, attributes[i].name)
    /\ ~HasKey(attributes[i].value, "type")

RECURSIVE attributeColumns(_, _)
attributeColumns(attributes, columns) ==
  IF attributes = << >> THEN columns
  ELSE LET modelColumnName == Head(attributes).name
           modelColumnOptions == Head(attributes).value
       IN IF /\ ~Has(baseColumns, modelColumnName)
             /\ modelColumnOptions.type # "VIRTUAL"
            THEN attributeColumns(Tail(attributes),
                   Put(columns, modelColumnOptions.field,
                       columnOfAttribute(modelColumnOptions)))
            ELSE attributeColumns(Tail(attributes), columns)

getModelColumns(model) ==
  LET c0 == IF Has(model.attributes, "id")
              THEN Put(EmptyObject, "id", Get(baseColumns, "id"))
              ELSE EmptyObject
      c1 == attributeColumns(model.attributes, c0)
      c2 == IF model.options.timestamps
              THEN Put(Put(c1, "createdAt", Get(baseColumns, "createdAt")),
                       "updatedAt", Get(baseColumns, "updatedAt"))
              ELSE c1
  IN IF model.options.paranoid
       THEN Put(c2, "deletedAt", Get(baseColumns, "deletedAt"))
       ELSE c2

(***************************************************************************)
(* getRawMigrations: the diff engine.                                      *)
(***************************************************************************)
\* JSON.stringify of a value that may be undefined.
Stringify(o, n) ==
  IF Has(o, n) THEN [defined |-> TRUE, value |-> Get(o, n)] ELSE [defined |-> FALSE]

noColumns == [new |-> EmptyObject, change |-> EmptyObject,
              rename |-> EmptyObject, remove |-> << >>]

\* if (modelColumnOptions.prevColumnName): the empty string is falsy.
hasPrevColumnName(modelColumnOptions) ==
  /\ HasKey(modelColumnOptions, "prevColumnName")
  /\ modelColumnOptions.prevColumnName # ""

\* The condition of the rename branch.
renameMatches(metaDataByTableName, modelColumnName, modelColumnOptions) ==
  /\ Has(metaDataByTableName, modelColumnOptions.prevColumnName)
  /\ modelColumnName # modelColumnOptions.prevColumnName

\* A rename that leaves the previous name in the snapshot.
renameKeepingPrevious(metaDataByTableName, modelColumnName, modelColumnOptions) ==
  Put(metaDataByTableName, modelColumnName, modelColumnOptions)

\* The rename branch's update of the snapshot entry.
renameInSnapshot(metaDataByTableName, modelColumnName, modelColumnOptions) ==
  Put(Delete(metaDataByTableName, modelColumnOptions.prevColumnName),
      modelColumnName, modelColumnOptions)

\* One iteration of the loop over Object.entries(modelColumns).  s.meta is
\* metaDataByTableName, s.columns the buckets.  currentColumnOptions is the
\* object held under the column's name when the iteration starts: when the
\* definitions are equal it stays in the snapshot and receives
\* nextColumnName; when they differ the snapshot slot is given the model's
\* object and nextColumnName lands on the object that was replaced.
classifyColumn(s, modelColumnName, modelColumnOptions) ==
  IF Has(s.meta, modelColumnName)
    THEN LET currentColumnOptions == Get(s.meta, modelColumnName)
         IN IF ~equalOptions(currentColumnOptions, modelColumnOptions)
              THEN [meta |-> Put(s.meta, modelColumnName, modelColumnOptions),
                    columns |-> [s.columns EXCEPT
                       !.change = Put(@, modelColumnName, modelColumnOptions)]]
              ELSE [meta |-> Put(s.meta, modelColumnName,
                              WithKey(currentColumnOptions, "nextColumnName",
                                      modelColumnName)),
                    columns |-> s.columns]
  ELSE IF hasPrevColumnName(modelColumnOptions)
    THEN IF renameMatches(s.meta, modelColumnName, modelColumnOptions)
           THEN [meta |-> renameInSnapshot(s.meta, modelColumnName, modelColumnOptions),
                 columns |-> [s.columns EXCEPT
                    !.rename = Put(@, modelColumnName, modelColumnOptions)]]
           ELSE s
  ELSE [meta |-> Put(s.meta, modelColumnName, modelColumnOptions),
        columns |-> [s.columns EXCEPT
           !.new = Put(@, modelColumnName, modelColumnOptions)]]

RECURSIVE classifyColumns(_, _)
\* The first loop; the result also keeps, for every column, the snapshot
\* entry as it stood when that column was reached (seen).
classifyColumns(modelColumns, s) ==
  IF modelColumns = << >> THEN s
  ELSE LET t == classifyColumn([meta |-> s.meta, columns |-> s.columns],
                               Head(modelColumns).name, Head(modelColumns).value)
       IN classifyColumns(Tail(modelColumns),
            [meta |-> t.meta, columns |-> t.columns,
             seen |-> Append(s.seen, s.meta)])

\* A removal test that spares every column some current column hints at.
isRemovedUnlessHinted(modelColumns, currentColumnName, currentColumnOptions) ==
  /\ ~Has(modelColumns, currentColumnName)
  /\ \A i \in 1..Len(modelColumns) :
       HasKey(modelColumns[i].value, "prevColumnName")
         => modelColumns[i].value.prevColumnName # currentColumnName

\* The condition of the second loop.
isRemoved(modelColumns, currentColumnName, currentColumnOptions) ==
  /\ ~Has(modelColumns, currentColumnName)
  /\ ~Has(modelColumns,
          IF HasKey(currentColumnOptions, "nextColumnName")
            THEN currentColumnOptions.nextColumnName ELSE "undefined")

RECURSIVE removeColumns(_, _, _)
\* The second loop, over the entries the snapshot has when it starts.
removeColumns(entries, modelColumns, s) ==
  IF entries = << >> THEN s
  ELSE LET currentColumnName == Head(entries).name
           currentColumnOptions == Head(entries).value
       IN IF isRemoved(modelColumns, currentColumnName, currentColumnOptions)
            THEN removeColumns(Tail(entries), modelColumns,
                   [meta |-> Delete(s.meta, currentColumnName),
                    remove |-> Append(s.remove, currentColumnName)])
            ELSE removeColumns(Tail(entries), modelColumns,
                   [meta |-> Put(s.meta, currentColumnName,
                               WithoutKey(currentColumnOptions, "nextColumnName")),
                    remove |-> s.remove])


Defined(v) == [defined |-> TRUE, value |-> v]

\* A label that is plural from the first column on.
labelPluralFromOne(n, plural, singular) == IF n >= 1 THEN plural ELSE singular

\* columnNames.length > 1 ? plural : singular
label(n, plural, singular) == IF n > 1 THEN plural ELSE singular

\* if (!_.isEmpty(columns.new)) { ... }
addMigrations(tableName, columns) ==
  IF columns.new = EmptyObject THEN << >>
  ELSE LET columnNames == ObjKeys(columns.new)
       IN << [label |-> label(Len(columnNames), "add-columns-to", "add-column-to"),
              up |-> [i \in 1..Len(columnNames) |->
                        [call |-> "addColumn", table |-> tableName,
                         column |-> columnNames[i],
                         options |-> Stringify(columns.new, columnNames[i])]],
              down |-> [i \in 1..Len(columnNames) |->
                        [call |-> "removeColumn", table |-> tableName,
                         column |-> columnNames[i]]]] >>

\* if (!_.isEmpty(columns.change)) { ... }
changeMigrations(tableName, columns, freezeMetaDataByTableName) ==
  IF columns.change = EmptyObject THEN << >>
  ELSE LET columnNames == ObjKeys(columns.change)
       IN << [label |-> label(Len(columnNames), "change-columns-to", "change-column-to"),
              up |-> [i \in 1..Len(columnNames) |->
                        [call |-> "changeColumn", table |-> tableName,
                         column |-> columnNames[i],
                         options |-> Stringify(columns.change, columnNames[i])]],
              down |-> [i \in 1..Len(columnNames) |->
                        [call |-> "changeColumn", table |-> tableName,
                         column |-> columnNames[i],
                         options |-> Stringify(freezeMetaDataByTableName,
                                               columnNames[i])]]] >>

\* if (!_.isEmpty(columns.rename)) { ... }
renameMigrations(tableName, columns, modelColumns, freezeMetaDataByTableName) ==
  IF columns.rename = EmptyObject THEN << >>
  ELSE LET columnNames == ObjKeys(columns.rename)
           prev(i) == Get(modelColumns, columnNames[i]).prevColumnName
       IN << [label |-> label(Len(columnNames), "rename-columns-to", "rename-column-to"),
              up |-> [i \in 1..Len(columnNames) |->
                        [call |-> "renameColumn", table |-> tableName,
                         from |-> prev(i), to |-> columnNames[i],
                         options |-> Stringify(columns.rename, columnNames[i])]],
              down |-> [i \in 1..Len(columnNames) |->
                        [call |-> "renameColumn", table |-> tableName,
                         from |-> columnNames[i], to |-> prev(i),
                         options |-> Stringify(freezeMetaDataByTableName, prev(i))]]] >>

\* if (columns.remove.length) { ... }
removeMigrations(tableName, columns, freezeMetaDataByTableName) ==
  IF columns.remove = << >> THEN << >>
  ELSE << [label |-> label(Len(columns.remove), "remove-columns-from",
                           "remove-column-from"),
           up |-> [i \in 1..Len(columns.remove) |->
                     [call |-> "removeColumn", table |-> tableName,
                      column |-> columns.remove[i]]],
           down |-> [i \in 1..Len(columns.remove) |->
                     [call |-> "addColumn", table |-> tableName,
                      column |-> columns.remove[i],
                      options |-> Stringify(freezeMetaDataByTableName,
                                            columns.remove[i])]]] >>

\* An initial descriptor that renders the snapshot entry read before it was
\* assigned.
initialMigrationOfPriorEntry(tableName, modelColumns) ==
  [label |-> "initial",
   up |-> << [call |-> "createTable", table |-> tableName,
              options |-> [defined |-> FALSE]] >>,
   down |-> << [call |-> "dropTable", table |-> tableName] >>]

\* The else branch: the table has no snapshot entry.
initialMigration(tableName, modelColumns) ==
  [label |-> "initial",
   up |-> << [call |-> "createTable", table |-> tableName,
              options |-> Defined(modelColumns)] >>,
   down |-> << [call |-> "dropTable", table |-> tableName] >>]

\* getRawMigrations(model, metaData).  The result holds what the call threw
\* ("" when it returned), the migrations it returned, metaData as the call
\* left it, and the call's locals.
getRawMigrations(model, metaData) ==
  LET tableName == model.options.tableName
      none == [threw |-> "", migrations |-> << >>, metaData |-> metaData,
               tableName |-> tableName, hadEntry |-> Has(metaData, tableName),
               modelColumns |-> EmptyObject, freeze |-> EmptyObject,
               columns |-> noColumns, seen |-> << >>]
  IN IF attributeThrows(model.attributes)
       THEN [none EXCEPT !.threw = "TypeError"]
     ELSE
       LET modelColumns == getModelColumns(model)
       IN IF Has(metaData, tableName)
            THEN LET metaDataByTableName == Get(metaData, tableName)
                     freezeMetaDataByTableName == metaDataByTableName
                 IN IF equal(metaDataByTableName, modelColumns)
                      THEN [none EXCEPT !.threw = "no change",
                                        !.modelColumns = modelColumns,
                                        !.freeze = freezeMetaDataByTableName]
                      ELSE
                        LET s1 == classifyColumns(modelColumns,
                                    [meta |-> metaDataByTableName,
                                     columns |-> noColumns, seen |-> << >>])
                            s2 == removeColumns(s1.meta, modelColumns,
                                    [meta |-> s1.meta, remove |-> << >>])
                            columns == [s1.columns EXCEPT !.remove = s2.remove]
                        IN [none EXCEPT
                              !.migrations =
                                 addMigrations(tableName, columns)
                                 \o changeMigrations(tableName, columns,
                                                     freezeMetaDataByTableName)
                                 \o renameMigrations(tableName, columns, modelColumns,
                                                     freezeMetaDataByTableName)
                                 \o removeMigrations(tableName, columns,
                                                     freezeMetaDataByTableName),
                              !.metaData = Put(metaData, tableName, s2.meta),
                              !.modelColumns = modelColumns,
                              !.freeze = freezeMetaDataByTableName,
                              !.columns = columns,
                              !.seen = s1.seen]
            ELSE [none EXCEPT
                    !.migrations = << initialMigration(tableName, modelColumns) >>,
                    !.metaData = Put(metaData, tableName, modelColumns),
                    !.modelColumns = modelColumns]

(***************************************************************************)
(* formatMigrationContent: every quoted type token "DataTypes.X" of the    *)
(* content becomes the identifier DataTypes.X.  In the values of the model *)
(* the tokens occur only as the type of a column definition.               *)
(***************************************************************************)
unquoteType(options) == [options EXCEPT !.type = [identifier |-> @]]

formatOperation(operation) ==
  IF HasKey(operation, "options") /\ operation.options.defined
    THEN [operation EXCEPT !.options.value =
            IF operation.call = "createTable"
              THEN [i \in 1..Len(@) |-> [@[i] EXCEPT !.value = unquoteType(@)]]
              ELSE unquoteType(@)]
    ELSE operation

formatMigrationContent(content) ==
  [up |-> [i \in 1..Len(content.up) |-> formatOperation(content.up[i])],
   down |-> [i \in 1..Len(content.down) |-> formatOperation(content.down[i])]]

(***************************************************************************)
(* The program's state.                                                    *)
(*   models        the model collection the run iterates (Object.entries)  *)
(*   metaFile      meta.json on disk: absent, unloadable, or a JSON object *)
(*   files         the migration files written so far                     *)
(*   metaData      the snapshot in memory                                  *)
(*   pc, index     where the driver is, and the position of its loop       *)
(*   rawMigrations the descriptors createMigrations has still to write     *)
(*   run           the number of the process run                           *)
(*   calls         history: one record per call of getRawMigrations        *)
(*   processed     history: one record per model the loop has finished     *)
(***************************************************************************)
VARIABLES models, metaFile, files, metaData, pc, index, rawMigrations, run,
          calls, processed

vars == << models, metaFile, files, metaData, pc, index, rawMigrations, run,
           calls, processed >>

Last(s) == s[Len(s)]

Attr(n, o) == [name |-> n, value |-> o]

Model(n, t, auto, ts, par, attrs) ==
  [name |-> n,
   options |-> [tableName |-> t, autoMigrations |-> auto,
                timestamps |-> ts, paranoid |-> par],
   attributes |-> attrs]

JsonFile(content) == [state |-> "json", content |-> content]

Column(n, o) == [name |-> n, value |-> o]

(***************************************************************************)
(* Inputs of the driver specification: a catalog of models and of          *)
(* meta.json files.                                                        *)
(***************************************************************************)
ModelCatalog ==
  { [name |-> "Sequelize"],
    [name |-> "sequelize"],
    Model("User", "users", TRUE, FALSE, FALSE,
          << Attr("name", [type |-> "STRING", field |-> "name"]) >>),
    Model("User", "users", TRUE, TRUE, FALSE,
          << Attr("id", [type |-> "INTEGER", field |-> "id"]),
             Attr("email", [type |-> "STRING", field |-> "email",
                            allowNull |-> FALSE]),
             Attr("age", [type |-> "INTEGER", field |-> "age",
                          defaultValue |-> [t |-> "number", v |-> 0]]) >>),
    Model("User", "users", TRUE, FALSE, FALSE,
          << Attr("fullName", [type |-> "STRING", field |-> "full_name",
                               prevColumnName |-> "name"]),
             Attr("initials", [type |-> "VIRTUAL", field |-> "initials"]),
             Attr("age", [type |-> "INTEGER", field |-> "age", allowNull |-> TRUE,
                          defaultValue |-> [t |-> "boolean", v |-> FALSE]]) >>),
    Model("Post", "posts", TRUE, FALSE, TRUE,
          << Attr("title", [type |-> "STRING", field |-> "title",
                            unique |-> TRUE]) >>),
    Model("Audit", "audits", FALSE, FALSE, FALSE,
          << Attr("entry", [type |-> "STRING", field |-> "entry"]) >>),
    Model("Broken", "broken", TRUE, FALSE, FALSE,
          << Attr("data", [field |-> "data"]) >>) }

ModelLists ==
  UNION { { l \in [1..n -> ModelCatalog] :
              \A i, j \in 1..n : i # j => l[i].name # l[j].name } : n \in 0..MaxModels }

MetaFiles ==
  { [state |-> "absent"],
    [state |-> "corrupt"],
    JsonFile(EmptyObject),
    JsonFile(<< Column("users",
                  << Column("name", [type |-> "DataTypes.STRING"]) >>) >>),
    JsonFile(<< Column("users",
                  << Column("name", [type |-> "DataTypes.STRING"]),
                     Column("age", [type |-> "DataTypes.INTEGER",
                                    defaultValue |-> [t |-> "number", v |-> 0]]) >>),
                Column("posts",
                  << Column("title", [type |-> "DataTypes.STRING"]),
                     Column("body", [type |-> "DataTypes.TEXT"]) >>) >>) }

(***************************************************************************)
(* Inputs of the diff specification: one model of table "users" with up    *)
(* to MaxCols attributes, against every snapshot of that table over the    *)
(* same column names.                                                      *)
(***************************************************************************)
ColNames == << "a", "b", "c" >>

DiffOptions(n) ==
  { [type |-> "STRING", field |-> n],
    [type |-> "INTEGER", field |-> n],
    [type |-> "STRING", field |-> n, prevColumnName |-> "a"],
    [type |-> "STRING", field |-> n, prevColumnName |-> "b"] }

DiffAttributes ==
  UNION { { Attr(ColNames[i], o) : o \in DiffOptions(ColNames[i]) } :
            i \in 1..Len(ColNames) }

DiffAttributeLists ==
  UNION { { l \in [1..n -> DiffAttributes] :
              \A i, j \in 1..n : i # j => l[i].name # l[j].name } : n \in 0..MaxCols }

RECURSIVE columnsOver(_)
\* Every snapshot entry whose columns are among the given names, in order.
columnsOver(names) ==
  IF names = << >> THEN { EmptyObject }
  ELSE LET rest == columnsOver(Tail(names))
       IN rest \cup
          { << Column(Head(names), [type |-> t]) >> \o r :
              t \in {"DataTypes.STRING", "DataTypes.INTEGER"}, r \in rest }

DiffMetaFiles ==
  { JsonFile(EmptyObject) }
    \cup { JsonFile(<< Column("users", c) >>) : c \in columnsOver(ColNames) }

(***************************************************************************)
(* Initial states: the process has not started; meta.json is as earlier    *)
(* runs left it.                                                           *)
(***************************************************************************)
InitProcess ==
  /\ files = << >>
  /\ metaData = EmptyObject
  /\ pc = "start"
  /\ index = 1
  /\ rawMigrations = << >>
  /\ run = 1
  /\ calls = << >>
  /\ processed = << >>

Init ==
  /\ models \in ModelLists
  /\ metaFile \in MetaFiles
  /\ InitProcess

InitDiff ==
  /\ models \in { << Model("User", "users", TRUE, FALSE, FALSE, l) >> :
                    l \in DiffAttributeLists }
  /\ metaFile \in DiffMetaFiles
  /\ InitProcess

(***************************************************************************)
(* The driver.                                                             *)
(***************************************************************************)
\* getMetaData: require() of meta.json, and on any failure the file is
\* written as '{}'.
GetMetaData ==
  /\ pc = "start"
  /\ IF metaFile.state = "json"
       THEN /\ metaData' = metaFile.content
            /\ UNCHANGED metaFile
       ELSE /\ metaFile' = JsonFile(EmptyObject)
            /\ metaData' = EmptyObject
  /\ pc' = "loop"
  /\ index' = 1
  /\ UNCHANGED << models, files, rawMigrations, run, calls, processed >>

\* The condition of the loop body.
eligible(model) ==
  /\ model.name \notin {"Sequelize", "sequelize"}
  /\ model.options.autoMigrations

\* A catch clause that lets every error but 'no change' leave the loop.
catchRethrow(err, i) == IF err = "no change" THEN i + 1 ELSE Len(models) + 1

\* The catch clause: the error is logged and the loop goes on.
catch(err, i) == i + 1

Finished(name, result, written) ==
  Append(processed, [run |-> run, name |-> name, result |-> result,
                     written |-> written])

SkipModel ==
  /\ pc = "loop"
  /\ index <= Len(models)
  /\ ~eligible(models[index])
  /\ index' = index + 1
  /\ UNCHANGED << models, metaFile, files, metaData, pc, rawMigrations, run,
                  calls, processed >>

\* createMigrations up to its first await: getRawMigrations runs to its end.
CreateMigrations ==
  /\ pc = "loop"
  /\ index <= Len(models)
  /\ eligible(models[index])
  /\ LET model == models[index]
         r == getRawMigrations(model, metaData)
     IN /\ metaData' = r.metaData
        /\ calls' = Append(calls,
             [run |-> run, model |-> model.name, tableName |-> r.tableName,
              threw |-> r.threw, hadEntry |-> r.hadEntry,
              modelColumns |-> r.modelColumns, freeze |-> r.freeze,
              columns |-> r.columns, seen |-> r.seen,
              migrations |-> r.migrations,
              after |-> Stringify(r.metaData, r.tableName)])
        /\ IF r.threw # ""
             THEN /\ processed' = Finished(model.name, r.threw, 0)
                  /\ index' = catch(r.threw, index)
                  /\ UNCHANGED << pc, rawMigrations >>
             ELSE IF r.migrations = << >>
               THEN /\ processed' = Finished(model.name, "created", 0)
                    /\ index' = index + 1
                    /\ UNCHANGED << pc, rawMigrations >>
               ELSE /\ pc' = "writeMigration"
                    /\ rawMigrations' = r.migrations
                    /\ UNCHANGED << index, processed >>
  /\ UNCHANGED << models, metaFile, files, run >>

\* The number of files written for the model being processed.
written ==
  IF pc \in {"writeMigration", "writeMeta"}
    THEN Len(Last(calls).migrations) - Len(rawMigrations)
         + (IF pc = "writeMeta" THEN 1 ELSE 0)
    ELSE 0

\* await fs.writeFile(filePath, prettier.format(formatMigrationContent(..)))
WriteMigrationFile ==
  /\ pc = "writeMigration"
  /\ files' = Append(files,
       [label |-> Head(rawMigrations).label,
        tableName |-> models[index].options.tableName,
        content |-> formatMigrationContent(Head(rawMigrations))])
  /\ pc' = "writeMeta"
  /\ UNCHANGED << models, metaFile, metaData, index, rawMigrations, run,
                  calls, processed >>

\* The same statement rejecting (the write, or prettier, fails): the error
\* leaves createMigrations and is caught by the loop.
WriteMigrationFileFails ==
  /\ pc = "writeMigration"
  /\ processed' = Finished(models[index].name, "error", written)
  /\ index' = catch("error", index)
  /\ pc' = "loop"
  /\ rawMigrations' = << >>
  /\ UNCHANGED << models, metaFile, files, metaData, run, calls >>

\* await fs.writeFile(outputPath + '/meta.json', JSON.stringify(metaData))
WriteMetaFile ==
  /\ pc = "writeMeta"
  /\ metaFile' = JsonFile(metaData)
  /\ rawMigrations' = Tail(rawMigrations)
  /\ IF Tail(rawMigrations) = << >>
       THEN /\ processed' = Finished(models[index].name, "created", written)
            /\ index' = index + 1
            /\ pc' = "loop"
       ELSE /\ pc' = "writeMigration"
            /\ UNCHANGED << index, processed >>
  /\ UNCHANGED << models, files, metaData, run, calls >>

WriteMetaFileFails ==
  /\ pc = "writeMeta"
  /\ processed' = Finished(models[index].name, "error", written)
  /\ index' = catch("error", index)
  /\ pc' = "loop"
  /\ rawMigrations' = << >>
  /\ UNCHANGED << models, metaFile, files, metaData, run, calls >>

\* The loop has no entry left: the run ends.
Finish ==
  /\ pc = "loop"
  /\ index > Len(models)
  /\ pc' = "done"
  /\ UNCHANGED << models, metaFile, files, metaData, index, rawMigrations, run,
                  calls, processed >>

\* The tool is run again on the same models: a new process, whose memory
\* is fresh and whose disk is what the last run left.
Restart ==
  /\ pc = "done"
  /\ run < MaxRuns
  /\ run' = run + 1
  /\ pc' = "start"
  /\ index' = 1
  /\ metaData' = EmptyObject
  /\ UNCHANGED << models, metaFile, files, rawMigrations, calls, processed >>

\* The steps of one process run.
Step ==
  \/ GetMetaData
  \/ SkipModel
  \/ CreateMigrations
  \/ WriteMigrationFile
  \/ WriteMigrationFileFails
  \/ WriteMetaFile
  \/ WriteMetaFileFails
  \/ Finish

Next == Step \/ Restart

Spec == Init /\ [][Next]_vars

NextDiff ==
  \/ GetMetaData
  \/ CreateMigrations
  \/ WriteMigrationFile
  \/ WriteMetaFile
  \/ Finish
  \/ Restart

SpecDiff == InitDiff /\ [][NextDiff]_vars

(***************************************************************************)
(* Vocabulary of the properties.                                           *)
(***************************************************************************)
Undefined == [defined |-> FALSE]

\* The calls of getRawMigrations that extracted the model's columns.
Calls == { i \in 1..Len(calls) : calls[i].threw # "TypeError" }

\* The calls that ran the diff against an existing snapshot entry.
DiffCalls == { i \in Calls : calls[i].hadEntry /\ calls[i].threw = "" }

\* The snapshot entry of the call's table before the call.
Before(c) == IF c.hadEntry THEN Defined(c.freeze) ELSE Undefined

Positions(c) == 1..Len(c.modelColumns)

Hint(c, j) == c.modelColumns[j].value.prevColumnName

Hinted(c, j) == HasKey(c.modelColumns[j].value, "prevColumnName")

Descriptors(c, labels) ==
  { m \in 1..Len(c.migrations) : c.migrations[m].label \in labels }

AddLabels == {"add-column-to", "add-columns-to"}
ChangeLabels == {"change-column-to", "change-columns-to"}
RenameLabels == {"rename-column-to", "rename-columns-to"}
RemoveLabels == {"remove-column-from", "remove-columns-from"}

\* Some descriptor with one of the labels has, at one position, an
\* up-operation and a down-operation that satisfy P.
HasOperations(c, labels, P(_, _)) ==
  \E m \in Descriptors(c, labels) :
    \E i \in 1..Len(c.migrations[m].up) :
      P(c.migrations[m].up[i], c.migrations[m].down[i])

(***************************************************************************)
(* C1.  Idempotence of the diff: when a diff run on a table has completed  *)
(* and the next run is on the same table, with the same current columns    *)
(* and the snapshot the first run left, the second run signals 'no change' *)
(* and emits no descriptor.                                                *)
(***************************************************************************)
SecondRunOf(i) ==
  /\ i + 1 \in Calls
  /\ calls[i + 1].tableName = calls[i].tableName
  /\ calls[i + 1].modelColumns = calls[i].modelColumns
  /\ Before(calls[i + 1]) = calls[i].after

Idempotence ==
  \A i \in Calls :
    (calls[i].threw = "" /\ SecondRunOf(i))
      => /\ calls[i + 1].threw = "no change"
         /\ calls[i + 1].migrations = << >>

(***************************************************************************)
(* C2.  A current column that is not in the snapshot under its own name    *)
(* and whose prevColumnName names no snapshot entry (neither an entry of   *)
(* the snapshot before the run nor one of the snapshot as it stands when   *)
(* the column is reached), or names the column itself, is new: it is in    *)
(* the new bucket, has an addColumn operation, and is in the snapshot      *)
(* after the run.                                                          *)
(***************************************************************************)
Unresolved(c, j) ==
  /\ ~Has(c.freeze, c.modelColumns[j].name)
  /\ Hinted(c, j)
  /\ \/ Hint(c, j) = c.modelColumns[j].name
     \/ ~Has(c.freeze, Hint(c, j)) /\ ~Has(c.seen[j], Hint(c, j))

UnresolvedHintIsNew ==
  \A i \in DiffCalls :
    LET c == calls[i]
    IN \A j \in Positions(c) :
         Unresolved(c, j)
           => LET n == c.modelColumns[j].name
                  Adds(up, down) == up.call = "addColumn" /\ up.column = n
              IN /\ Has(c.columns.new, n)
                 /\ HasOperations(c, AddLabels, Adds)
                 /\ Has(c.after.value, n)

(***************************************************************************)
(* C3.  Crash consistency of meta.json: while a model is being processed,  *)
(* the changes of a descriptor whose migration file is not yet written are *)
(* not in the table's entry of meta.json.                                  *)
(***************************************************************************)
\* The changes of descriptor m of call c are not in the entry e.
NotApplied(c, m, e) ==
  LET l == c.migrations[m].label
  IN /\ l = "initial" => ~e.defined
     /\ l \in AddLabels =>
          \A n \in KeySet(c.columns.new) : ~Has(e.value, n)
     /\ l \in ChangeLabels =>
          \A n \in KeySet(c.columns.change) :
            /\ Has(e.value, n)
            /\ Get(e.value, n) = Get(c.freeze, n)
     /\ l \in RenameLabels =>
          \A n \in KeySet(c.columns.rename) : ~Has(e.value, n)
     /\ l \in RemoveLabels =>
          \A k \in 1..Len(c.columns.remove) : Has(e.value, c.columns.remove[k])

CrashConsistency ==
  pc \in {"writeMigration", "writeMeta"}
    => LET c == Last(calls)
       IN \A m \in 1..Len(c.migrations) :
            m > written
              => NotApplied(c, m, Stringify(metaFile.content, c.tableName))

(***************************************************************************)
(* C4.  A table with no snapshot entry gets exactly one descriptor,        *)
(* 'initial': up is createTable with the extracted columns, down is        *)
(* dropTable; the snapshot entry becomes the extracted columns.            *)
(***************************************************************************)
ModelNamed(n) == CHOOSE m \in { models[k] : k \in 1..Len(models) } : m.name = n

InitialDescriptor ==
  \A i \in Calls :
    LET c == calls[i]
        extracted == getModelColumns(ModelNamed(c.model))
    IN ~c.hadEntry
         => /\ c.threw = ""
            /\ c.migrations =
                 << [label |-> "initial",
                     up |-> << [call |-> "createTable", table |-> c.tableName,
                                options |-> Defined(extracted)] >>,
                     down |-> << [call |-> "dropTable", table |-> c.tableName] >>] >>
            /\ c.after = Defined(extracted)

InitialDescriptorWitness ==
  \E i \in Calls :
    /\ ~calls[i].hadEntry
    /\ Len(calls[i].modelColumns) >= 2
    /\ \E f \in 1..Len(files) :
         files[f].label = "initial" /\ files[f].tableName = calls[i].tableName

(***************************************************************************)
(* C5.  Rename disambiguation.  As claimed: a current column B that is not *)
(* in the snapshot, with prevColumnName = A, A # B and A a snapshot entry, *)
(* is a rename (up renames A to B, down renames B to A), is not in the new *)
(* bucket, and A is not in the remove bucket.                              *)
(***************************************************************************)
Renamed(c, j) ==
  LET B == c.modelColumns[j].name
      A == Hint(c, j)
      Renames(up, down) ==
        /\ up.call = "renameColumn" /\ up.from = A /\ up.to = B
        /\ down.call = "renameColumn" /\ down.from = B /\ down.to = A
  IN /\ Has(c.columns.rename, B)
     /\ HasOperations(c, RenameLabels, Renames)
     /\ ~Has(c.columns.new, B)
     /\ \A k \in 1..Len(c.columns.remove) : c.columns.remove[k] # A

HintsEntry(c, j) ==
  /\ ~Has(c.freeze, c.modelColumns[j].name)
  /\ Hinted(c, j)
  /\ Hint(c, j) # c.modelColumns[j].name
  /\ Has(c.freeze, Hint(c, j))

RenameDisambiguation ==
  \A i \in DiffCalls :
    \A j \in Positions(calls[i]) :
      HintsEntry(calls[i], j) => Renamed(calls[i], j)

(***************************************************************************)
(* C5, amended.  The same, for a snapshot entry A that no earlier column   *)
(* of the same run has been renamed from.                                  *)
(***************************************************************************)
Consumed(c, j) ==
  \E k \in 1..(j - 1) :
    /\ Has(c.columns.rename, c.modelColumns[k].name)
    /\ Hint(c, k) = Hint(c, j)

RenameOfUnconsumedEntry ==
  \A i \in DiffCalls :
    \A j \in Positions(calls[i]) :
      (HintsEntry(calls[i], j) /\ ~Consumed(calls[i], j)) => Renamed(calls[i], j)

RenameWitness ==
  \E i \in DiffCalls :
    /\ \E j \in Positions(calls[i]) :
         HintsEntry(calls[i], j) /\ ~Consumed(calls[i], j)
    /\ \E f \in 1..Len(files) : files[f].label \in RenameLabels

(***************************************************************************)
(* C6.  Down-operations carry the definitions of the snapshot before the   *)
(* run: of the column itself for a changed or removed column, of its       *)
(* prevColumnName for a renamed one; that definition exists and is not the *)
(* definition after the run.                                               *)
(***************************************************************************)
Prior(c, n, down) ==
  /\ Has(c.freeze, n)
  /\ down.options = Defined(Get(c.freeze, n))

DownUsesPriorDefinitions ==
  \A i \in DiffCalls :
    LET c == calls[i]
    IN /\ \A n \in KeySet(c.columns.change) :
            LET Changes(up, down) ==
                  /\ down.call = "changeColumn" /\ down.column = n
                  /\ Prior(c, n, down)
                  /\ down.options # Stringify(c.after.value, n)
            IN HasOperations(c, ChangeLabels, Changes)
       /\ \A n \in KeySet(c.columns.rename) :
            LET Renames(up, down) ==
                  /\ down.call = "renameColumn" /\ down.from = n
                  /\ Prior(c, Get(c.modelColumns, n).prevColumnName, down)
                  /\ down.options # Stringify(c.after.value, n)
            IN HasOperations(c, RenameLabels, Renames)
       /\ \A k \in 1..Len(c.columns.remove) :
            LET Removes(up, down) ==
                  /\ down.call = "addColumn" /\ down.column = c.columns.remove[k]
                  /\ Prior(c, c.columns.remove[k], down)
            IN HasOperations(c, RemoveLabels, Removes)

(***************************************************************************)
(* C7.  When the write of a model's first migration file fails, the        *)
(* table's snapshot entry is what it was before the model was processed,   *)
(* in memory and in meta.json.                                             *)
(***************************************************************************)
FirstWriteFailed(i) ==
  /\ processed[i].run = run
  /\ processed[i].result = "error"
  /\ processed[i].written = 0
  /\ calls[i].threw = ""
  /\ \A k \in (i + 1)..Len(calls) :
       calls[k].run = run => calls[k].tableName # calls[i].tableName

SnapshotUnmutatedOnFirstWriteFailure ==
  (pc # "start")
    => \A i \in 1..Len(processed) :
         FirstWriteFailed(i)
           => /\ Stringify(metaData, calls[i].tableName) = Before(calls[i])
              /\ Stringify(metaFile.content, calls[i].tableName) = Before(calls[i])

(***************************************************************************)
(* C8.  Per-model isolation: the models the loop has finished are, in      *)
(* order, the first eligible models of the collection, each once, whatever *)
(* the earlier ones threw; every step of a run brings it closer to its     *)
(* end, and at its end every eligible model has been processed.            *)
(***************************************************************************)
InThisRun(p) == p.run = run

ProcessedNames ==
  LET ps == SelectSeq(processed, InThisRun) IN [i \in 1..Len(ps) |-> ps[i].name]

EligibleNames ==
  LET ms == SelectSeq(models, eligible) IN [i \in 1..Len(ms) |-> ms[i].name]

InOrder ==
  /\ Len(ProcessedNames) <= Len(EligibleNames)
  /\ \A i \in 1..Len(ProcessedNames) : ProcessedNames[i] = EligibleNames[i]
  /\ pc = "done" => ProcessedNames = EligibleNames

\* What a run has still to do: the models from index on, and within the
\* model at index the descriptors still to write (at most four).
Remaining ==
  IF pc = "done" THEN 0
  ELSE IF pc = "start" THEN 10 * (Len(models) + 2)
  ELSE 10 * (Len(models) + 1 - index)
         + (IF pc = "loop" THEN 10
            ELSE 2 * Len(rawMigrations) - (IF pc = "writeMeta" THEN 1 ELSE 0))

PerModelIsolation == []InOrder /\ [][pc # "done" => Remaining' < Remaining]_vars

PerModelIsolationWitness ==
  /\ pc = "done"
  /\ \E i, j \in 1..Len(processed) :
       /\ i < j
       /\ processed[i].run = run /\ processed[j].run = run
       /\ processed[i].result \in {"error", "TypeError"}
       /\ processed[j].result = "created"

(***************************************************************************)
(* C9.  No-hint removal: a column of the snapshot entry that is not among  *)
(* the current columns and that no current column was renamed from is      *)
(* removed: it is in the remove bucket exactly once, has a removeColumn    *)
(* operation, and is not in the snapshot after the run.                    *)
(***************************************************************************)
RenamedFrom(c, A) ==
  \E n \in KeySet(c.columns.rename) : Get(c.modelColumns, n).prevColumnName = A

Dropped(c, A) ==
  /\ Has(c.freeze, A)
  /\ ~Has(c.modelColumns, A)
  /\ ~RenamedFrom(c, A)

NoHintRemoval ==
  \A i \in Calls :
    LET c == calls[i]
    IN \A A \in KeySet(c.freeze) :
         (c.hadEntry /\ Dropped(c, A))
           => LET Removes(up, down) == up.call = "removeColumn" /\ up.column = A
              IN /\ c.threw = ""
                 /\ Cardinality({ k \in 1..Len(c.columns.remove) :
                                    c.columns.remove[k] = A }) = 1
                 /\ HasOperations(c, RemoveLabels, Removes)
                 /\ ~Has(c.after.value, A)

NoHintRemovalWitness ==
  \E i \in DiffCalls :
    /\ \E A \in KeySet(calls[i].freeze) : Dropped(calls[i], A)
    /\ calls[i].columns.rename # EmptyObject
    /\ \E f \in 1..Len(files) : files[f].label \in RemoveLabels

(***************************************************************************)
(* C10.  The prevColumnName hint is never persisted: no column definition  *)
(* of the snapshot, in memory or in meta.json, has a prevColumnName.       *)
(***************************************************************************)
NoHintIn(snapshot) ==
  \A t \in 1..Len(snapshot) :
    \A k \in 1..Len(snapshot[t].value) :
      ~HasKey(snapshot[t].value[k].value, "prevColumnName")

HintNeverPersisted ==
  /\ NoHintIn(metaData)
  /\ metaFile.state = "json" => NoHintIn(metaFile.content)


(***************************************************************************)
(* C11.  Multiplicity labelling: the descriptors a diff run returns are,   *)
(* in the order new, change, rename, remove, one descriptor for every      *)
(* bucket that holds a column and none for an empty bucket; a descriptor   *)
(* has one up-operation and one down-operation per column of its bucket,   *)
(* and its label is the plural form exactly when the bucket holds two or   *)
(* more columns and the singular form exactly when it holds one.           *)
(***************************************************************************)
Buckets(c) ==
  << [size |-> Len(c.columns.new),
      singular |-> "add-column-to", plural |-> "add-columns-to"],
     [size |-> Len(c.columns.change),
      singular |-> "change-column-to", plural |-> "change-columns-to"],
     [size |-> Len(c.columns.rename),
      singular |-> "rename-column-to", plural |-> "rename-columns-to"],
     [size |-> Len(c.columns.remove),
      singular |-> "remove-column-from", plural |-> "remove-columns-from"] >>

NonEmpty(bucket) == bucket.size > 0

MultiplicityLabeling ==
  \A i \in DiffCalls :
    LET c == calls[i]
        emitted == SelectSeq(Buckets(c), NonEmpty)
    IN /\ Len(c.migrations) = Len(emitted)
       /\ \A m \in 1..Len(emitted) :
            /\ Len(c.migrations[m].up) = emitted[m].size
            /\ Len(c.migrations[m].down) = emitted[m].size
            /\ (emitted[m].size >= 2) <=> (c.migrations[m].label = emitted[m].plural)
            /\ (emitted[m].size = 1) <=> (c.migrations[m].label = emitted[m].singular)

\* A diff run with a bucket of two columns and a bucket of one column has
\* had its descriptors written, the plural one before the singular one.
MultiplicityLabelingWitness ==
  \E i \in DiffCalls :
    /\ Len(calls[i].columns.new) = 2
    /\ Len(calls[i].columns.remove) = 1
    /\ Len(calls[i].migrations) = 2
    /\ \E f \in 1..Len(files) - 1 :
         /\ files[f].label = "add-columns-to"
         /\ files[f + 1].label = "remove-column-from"

(***************************************************************************)
(* C12.  Post-diff snapshot invariant: when a diff run on an existing      *)
(* snapshot entry returns without signalling 'no change', the snapshot     *)
(* entry of the table has exactly the names of the current columns, and    *)
(* every definition deep-equals the current one.                           *)
(***************************************************************************)
PostDiffSnapshot ==
  \A i \in DiffCalls :
    /\ calls[i].after.defined
    /\ equal(calls[i].after.value, calls[i].modelColumns)

(***************************************************************************)
(* C13.  Loading the snapshot writes '{}' to meta.json only when there is  *)
(* no meta.json: when the file exists, whatever its content, the load      *)
(* leaves the file as it is.                                               *)
(***************************************************************************)
Loads == pc = "start" /\ pc' = "loop"

LoadKeepsExistingFile ==
  [][Loads => /\ metaFile.state # "absent" => metaFile' = metaFile
              /\ metaFile' # metaFile => metaFile' = JsonFile(EmptyObject)]_vars

=============================================================================
